---- MODULE Spec2Model ----
(***************************************************************************)
(* ZHeap, the orchestrator of the Z garbage collector                      *)
(* (src/hotspot/share/gc/z/zHeap.cpp): the phase state machine driven by   *)
(* the cycle driver, the page table kept around page allocation and        *)
(* freeing by concurrent threads, relocation-set selection, and the        *)
(* resurrection / reference / class-unloading protocol.                    *)
(*                                                                         *)
(* A Page is a page identity 1..NPages; identities are never reused, so a  *)
(* Page that was freed stays distinguishable from a Page allocated later.  *)
(* The collaborators whose code is outside zHeap.cpp (ZMark, ZPage,        *)
(* ZPageAllocator, ZPageTable, ZRelocationSetSelector, ZRelocate,          *)
(* ZResurrection, ZAddress, the cycle driver) are modelled by the state    *)
(* their calls change, as the design document describes them.              *)
(***************************************************************************)
EXTENDS Naturals, Integers, FiniteSets, Sequences, TLC

\* ---------------------------------------------------------------- bounds
NPages == 3
NMutators == 1
MaxSeqNum == 3
MaxFrequency == 1
NObjects == 3
NWorkers == 2
MaxOutDegree == 1
MaxMarkCalls == 2
MaxPrints == 1

Pages == 1..NPages
Mutators == 1..NMutators
NoPage == 0
Objects == 1..NObjects
Workers == 1..NWorkers

\* ------------------------------------------------------ collection causes
ExplicitCauses ==
  {"_wb_young_gc", "_wb_conc_mark", "_wb_full_gc", "_dcmd_gc_run",
   "_java_lang_system_gc", "_full_gc_alot", "_scavenge_alot",
   "_jvmti_force_gc", "_metadata_GC_clear_soft_refs"}

OtherCauses ==
  {"_no_gc", "_z_timer", "_z_allocation_rate", "_z_allocation_stall"}

AllCauses == ExplicitCauses \cup OtherCauses

\* The causes the cycle driver of the heap model runs its cycles with.
DriverCauses == {"_java_lang_system_gc", "_z_timer"}

VARIABLES
  ZGlobalPhase,            \* "Mark" | "MarkCompleted" | "Relocate"
  ZGlobalSeqNum,           \* cycle sequence number
  ZAddressMetadataMarked,  \* the marked view in use: "Marked0" | "Marked1"
  ZAddressGoodMask,        \* the good view: "Marked0" | "Marked1" | "Remapped"
  ClassUnloading,          \* VM flag
  ZUnloadClassesFrequency, \* VM flag
  gc_cause,                \* ZCollectedHeap::gc_cause()
  pageState,               \* Page -> "unborn" | "allocated" | "queued" | "deleted"
  allocating,              \* Pages allocated in the current cycle (is_allocating)
  livemap,                 \* Pages marked live in the current cycle
  pageTable,               \* Pages with a page table entry
  deferredDelete,          \* nesting count of enable_deferred_delete
  reclaimed,               \* ZPageAllocator::reclaimed(), in Pages
  markStack,               \* Pages with pending mark work
  resurrectionBlocked,     \* ZResurrection::is_blocked()
  weakRootsProcessed,      \* process_weak_roots ran in this cycle
  unloadPrepared,          \* ZUnload::prepare ran in this cycle
  unloaded,                \* ZUnload::unload ran in this cycle
  enqueued,                \* enqueue_references calls in this cycle
  verified,                \* verify() walked the heap in this cycle
  relocationSet,           \* Pages of the relocation set
  forwardingTable,         \* Pages with a Forwarding in the forwarding table
  relocateSuccess,         \* relocate(): the local success, as ZRelocate::relocate computes it
  selLive,                 \* selector: registered live Pages
  selGarbage,              \* selector: registered garbage Pages
  cursor,                  \* ZPageTableIterator position
  srsEntry,                \* relocatable Pages of the page table when select_relocation_set began
  selLiveCount,            \* selector: register_live_page calls
  pending,                 \* relocate(): Pages not yet handled
  pc,                      \* position of the cycle driver
  gcwork,                  \* position of the GC thread inside a multi-step call
  gcFreeing,               \* Page the GC thread is inside free_page with
  mpc,                     \* Mutator -> position
  mpage,                   \* Mutator -> Page in hand
  halted,                  \* a guarantee() failed: the VM has aborted
  statSuccess,             \* ZStatRelocation: the outcome recorded by set_at_relocate_end
  relocateReturned,        \* what the last relocate() handed to its caller
  printing,                \* a thread is inside print_extended_on
  prints,                  \* print_extended_on calls made
  objRoots,                \* the root set: objects the roots refer to
  objEdges,                \* the object graph: object -> objects its fields refer to
  objMarked,               \* objects with their mark bit set
  workerStack,             \* marking worker -> objects on its mark stack
  markCalls                \* mark() calls since mark_start

phaseVars == <<ZGlobalPhase, ZGlobalSeqNum, ZAddressMetadataMarked, ZAddressGoodMask>>
flagVars == <<ClassUnloading, ZUnloadClassesFrequency>>
pageVars == <<pageState, allocating, livemap, pageTable, deferredDelete, reclaimed>>
refVars == <<resurrectionBlocked, weakRootsProcessed, unloadPrepared, unloaded, enqueued, verified>>
relocVars == <<relocationSet, forwardingTable, relocateSuccess>>
selVars == <<selLive, selGarbage, cursor, srsEntry, selLiveCount>>
mutVars == <<mpc, mpage>>
statVars == <<statSuccess, relocateReturned>>
printVars == <<printing, prints>>
objVars == <<objRoots, objEdges, objMarked, workerStack, markCalls>>
otherVars == <<statVars, printVars, objVars>>

vars == <<phaseVars, flagVars, otherVars, gc_cause, pageVars, markStack, refVars, relocVars,
          selVars, pending, pc, gcwork, gcFreeing, mutVars, halted>>

\* ------------------------------------------------------------ initial state
\* The heap and the collector's bookkeeping as the ZHeap constructor leaves
\* them.
InitCollector ==
  /\ pageState = [p \in Pages |-> "unborn"]
  /\ allocating = {}
  /\ livemap = {}
  /\ pageTable = {}
  /\ deferredDelete = 0
  /\ reclaimed = 0
  /\ markStack = {}
  /\ resurrectionBlocked = FALSE
  /\ weakRootsProcessed = FALSE
  /\ unloadPrepared = FALSE
  /\ unloaded = FALSE
  /\ enqueued = 0
  /\ verified = FALSE
  /\ relocationSet = {}
  /\ forwardingTable = {}
  /\ relocateSuccess = TRUE
  /\ selLive = {}
  /\ selGarbage = {}
  /\ cursor = 0
  /\ srsEntry = {}
  /\ selLiveCount = 0
  /\ pending = {}
  /\ gcwork = "none"
  /\ gcFreeing = NoPage
  /\ mpc = [t \in Mutators |-> "idle"]
  /\ mpage = [t \in Mutators |-> NoPage]
  /\ halted = FALSE
  /\ statSuccess = TRUE
  /\ relocateReturned = "nothing"
  /\ printing = FALSE
  /\ prints = 0

\* Everything but the VM flags, as the ZHeap constructor and the globals
\* leave it; the object graph is not looked at.
InitRest ==
  /\ ZGlobalPhase = "Relocate"
  /\ ZAddressMetadataMarked = "Marked0"
  /\ ZAddressGoodMask = "Remapped"
  /\ pc = "idle"
  /\ InitCollector
  /\ objRoots = {}
  /\ objEdges = [o \in Objects |-> {}]
  /\ objMarked = {}
  /\ workerStack = [w \in Workers |-> {}]
  /\ markCalls = 0

InitHeap ==
  /\ InitRest
  /\ ZGlobalSeqNum = 1
  /\ gc_cause = "_no_gc"

Init ==
  /\ InitHeap
  /\ ClassUnloading \in BOOLEAN
  /\ ZUnloadClassesFrequency \in 0..MaxFrequency

\* --------------------------------------------------------------- helpers
\* A safepoint check that passes whatever the mutators are doing.
AtSafepoint_unchecked == TRUE

\* SafepointSynchronize::is_at_safepoint(): every mutator is parked between
\* two heap operations.
AtSafepoint == \A t \in Mutators : mpc[t] = "idle"

\* The driver's positions after a call made out of its order.
OutOfOrder ==
  {"out_of_order_mark_start", "out_of_order_mark", "out_of_order_mark_end",
   "out_of_order_process", "out_of_order_unload", "out_of_order_finish",
   "out_of_order_verify", "out_of_order_select", "out_of_order_relocate_start",
   "out_of_order_relocate", "out_of_order_reset"}

\* The driver's position after a call: in its own order (the driver
\* specification), or for a caller that may leave the order. The first call
\* that does not fit the position is followed to its end, and no call is
\* made after it.
Sequence(ordered, from, to, misplaced) ==
  IF ordered
    THEN pc \in from /\ pc' = to
    ELSE pc \notin OutOfOrder /\ pc' = (IF pc \in from THEN to ELSE misplaced)

\* ZPage::is_relocatable() and ZPage::is_marked()
is_relocatable(p) == pageState[p] = "allocated" /\ p \notin allocating
is_marked(p) == is_relocatable(p) /\ p \in livemap

\* ZPageAllocator::free_page(page, reclaimed): the Page is queued while
\* deferred deletion is enabled, deleted otherwise.
AllocatorFree(p, recl) ==
  /\ pageState' = [pageState EXCEPT ![p] = IF deferredDelete > 0 THEN "queued" ELSE "deleted"]
  /\ allocating' = allocating \ {p}
  /\ livemap' = livemap \ {p}
  /\ reclaimed' = IF recl THEN reclaimed + 1 ELSE reclaimed

\* A should_unload_class whose switch misses the last case label.
ShouldUnloadFor_missing_case(cu, cause, freq, seq) ==
  IF ~cu THEN FALSE
  ELSE IF cause \in ExplicitCauses \ {"_metadata_GC_clear_soft_refs"} THEN TRUE
  ELSE (freq # 0) /\ ((seq - 1) % freq = 0)

\* ZHeap::should_unload_class as a function of what it reads
ShouldUnloadFor(cu, cause, freq, seq) ==
  IF ~cu THEN FALSE
  ELSE IF cause \in ExplicitCauses THEN TRUE
  ELSE (freq # 0) /\ ((seq - 1) % freq = 0)

should_unload_class ==
  ShouldUnloadFor(ClassUnloading, gc_cause, ZUnloadClassesFrequency, ZGlobalSeqNum)

\* ------------------------------------------------- mutator page operations
\* ZHeap::alloc_page, first half: ZPageAllocator::alloc_page returns a new
\* Page (the allocator hands out Page identities in ascending order), or
\* NULL when no Page is left.
alloc_page(t) ==
  /\ ~halted
  /\ mpc[t] = "idle"
  /\ \/ \E p \in Pages :
          /\ pageState[p] = "unborn"
          /\ \A q \in Pages : q < p => pageState[q] # "unborn"
          /\ pageState' = [pageState EXCEPT ![p] = "allocated"]
          /\ allocating' = allocating \cup {p}
          /\ mpc' = [mpc EXCEPT ![t] = "insert"]
          /\ mpage' = [mpage EXCEPT ![t] = p]
     \/ /\ \A p \in Pages : pageState[p] # "unborn"
        /\ UNCHANGED <<pageState, allocating, mutVars>>
  /\ UNCHANGED <<phaseVars, flagVars, otherVars, gc_cause, livemap, pageTable, deferredDelete,
                 reclaimed, markStack, refVars, relocVars, selVars, pending, pc,
                 gcwork, gcFreeing, halted>>

\* ZHeap::alloc_page, second half: insert the page table entry.
alloc_page_insert(t) ==
  /\ ~halted
  /\ mpc[t] = "insert"
  /\ pageTable' = pageTable \cup {mpage[t]}
  /\ mpc' = [mpc EXCEPT ![t] = "has"]
  /\ UNCHANGED <<phaseVars, flagVars, otherVars, gc_cause, pageState, allocating, livemap,
                 deferredDelete, reclaimed, markStack, refVars, relocVars, selVars,
                 pending, pc, gcwork, gcFreeing, mpage, halted>>

\* The allocating thread keeps the Page it was given.
keep_page(t) ==
  /\ ~halted
  /\ mpc[t] = "has"
  /\ mpc' = [mpc EXCEPT ![t] = "idle"]
  /\ mpage' = [mpage EXCEPT ![t] = NoPage]
  /\ UNCHANGED <<phaseVars, flagVars, otherVars, gc_cause, pageVars, markStack, refVars,
                 relocVars, selVars, pending, pc, gcwork, gcFreeing, halted>>

\* An undo_alloc_page whose free_page hands the Page back to the allocator
\* before it removes the page table entry.
undo_alloc_page_frees_first(t) ==
  /\ ~halted
  /\ mpc[t] = "has"
  /\ mpage[t] \in allocating
  /\ AllocatorFree(mpage[t], FALSE)
  /\ mpc' = [mpc EXCEPT ![t] = "free"]
  /\ UNCHANGED <<phaseVars, flagVars, otherVars, gc_cause, pageTable, deferredDelete, markStack,
                 refVars, relocVars, selVars, pending, pc, gcwork, gcFreeing, mpage,
                 halted>>

\* ZHeap::undo_alloc_page up to the first half of free_page: the Page is
\* still allocating; remove the page table entry.
undo_alloc_page(t) ==
  /\ ~halted
  /\ mpc[t] = "has"
  /\ mpage[t] \in allocating
  /\ pageTable' = pageTable \ {mpage[t]}
  /\ mpc' = [mpc EXCEPT ![t] = "free"]
  /\ UNCHANGED <<phaseVars, flagVars, otherVars, gc_cause, pageState, allocating, livemap,
                 deferredDelete, reclaimed, markStack, refVars, relocVars, selVars,
                 pending, pc, gcwork, gcFreeing, mpage, halted>>

\* ZHeap::undo_alloc_page called with a Page the thread was given some time
\* ago and kept, a Page no thread is holding: the assertion stops the VM
\* unless the Page is still allocating.
undo_alloc_page_kept(t) ==
  /\ ~halted
  /\ mpc[t] = "idle"
  /\ \E p \in pageTable :
       /\ \A u \in Mutators : mpage[u] # p
       /\ mpage' = [mpage EXCEPT ![t] = p]
       /\ IF p \in allocating
            THEN /\ pageTable' = pageTable \ {p}
                 /\ mpc' = [mpc EXCEPT ![t] = "free"]
                 /\ UNCHANGED halted
            ELSE /\ halted' = TRUE
                 /\ mpc' = [mpc EXCEPT ![t] = "assert_failed"]
                 /\ UNCHANGED pageTable
  /\ UNCHANGED <<phaseVars, flagVars, otherVars, gc_cause, pageState, allocating, livemap,
                 deferredDelete, reclaimed, markStack, refVars, relocVars, selVars,
                 pending, pc, gcwork, gcFreeing>>

\* A free_page on the undo path that counts the Page as reclaimed.
free_page_counts_reclaimed(t) ==
  /\ ~halted
  /\ mpc[t] = "free"
  /\ AllocatorFree(mpage[t], TRUE)
  /\ mpc' = [mpc EXCEPT ![t] = "idle"]
  /\ mpage' = [mpage EXCEPT ![t] = NoPage]
  /\ UNCHANGED <<phaseVars, flagVars, otherVars, gc_cause, pageTable, deferredDelete,
                 markStack, refVars, relocVars, selVars, pending, pc, gcwork, gcFreeing,
                 halted>>

\* ZHeap::free_page, second half, on the undo path (reclaimed = false).
free_page(t) ==
  /\ ~halted
  /\ mpc[t] = "free"
  /\ AllocatorFree(mpage[t], FALSE)
  /\ mpc' = [mpc EXCEPT ![t] = "idle"]
  /\ mpage' = [mpage EXCEPT ![t] = NoPage]
  /\ UNCHANGED <<phaseVars, flagVars, otherVars, gc_cause, pageTable, deferredDelete, markStack,
                 refVars, relocVars, selVars, pending, pc, gcwork, gcFreeing, halted>>

\* A mutator's barrier finds an unmarked object while marking is in
\* progress and pushes mark work.
mark_barrier(t) ==
  /\ ~halted
  /\ mpc[t] = "idle"
  /\ ZGlobalPhase = "Mark"
  /\ \E p \in pageTable :
       /\ is_relocatable(p)
       /\ p \notin livemap
       /\ p \notin markStack
       /\ markStack' = markStack \cup {p}
  /\ UNCHANGED <<phaseVars, flagVars, otherVars, gc_cause, pageVars, refVars, relocVars,
                 selVars, pending, pc, gcwork, gcFreeing, mutVars, halted>>

\* ------------------------------------------------------------- marking
\* ZAddress::flip_to_marked via ZHeap::flip_to_marked
flip_to_marked ==
  /\ ZAddressMetadataMarked' = (IF ZAddressMetadataMarked = "Marked0" THEN "Marked1" ELSE "Marked0")
  /\ ZAddressGoodMask' = ZAddressMetadataMarked'

\* ZAddress::flip_to_remapped via ZHeap::flip_to_remapped
flip_to_remapped ==
  /\ ZAddressGoodMask' = "Remapped"
  /\ UNCHANGED ZAddressMetadataMarked

\* ZHeap::mark_start. ZMark::start advances the sequence number, which makes
\* every Page relocatable and every livemap stale, and marks the roots.
mark_start(ordered) ==
  /\ ~halted
  /\ gcwork = "none"
  /\ AtSafepoint
  /\ ZGlobalSeqNum < MaxSeqNum
  /\ Sequence(ordered, {"idle"}, "mark", "out_of_order_mark_start")
  /\ gc_cause' \in DriverCauses
  /\ flip_to_marked
  /\ reclaimed' = 0
  /\ enqueued' = 0
  /\ ZGlobalPhase' = "Mark"
  /\ ZGlobalSeqNum' = ZGlobalSeqNum + 1
  /\ allocating' = {}
  /\ livemap' = {}
  /\ markStack' \in SUBSET pageTable
  /\ weakRootsProcessed' = FALSE
  /\ unloadPrepared' = FALSE
  /\ unloaded' = FALSE
  /\ verified' = FALSE
  /\ UNCHANGED <<flagVars, otherVars, pageState, pageTable, deferredDelete, resurrectionBlocked,
                 relocVars, selVars, pending, gcwork, gcFreeing, mutVars, halted>>

\* The Pages a marking pass can reach: relocatable Pages of the page table.
Markable == {p \in pageTable : is_relocatable(p)}

\* ZHeap::mark: ZMark::mark drains the mark stacks, marking what it pops and
\* what that references.
mark(ordered) ==
  /\ ~halted
  /\ gcwork = "none"
  /\ Sequence(ordered, {"mark", "mark_continue"}, "mark", "out_of_order_mark")
  /\ \E found \in SUBSET Markable :
       livemap' = livemap \cup ((markStack \cup found) \cap Markable)
  /\ markStack' = {}
  /\ UNCHANGED <<phaseVars, flagVars, otherVars, gc_cause, pageState, allocating, pageTable,
                 deferredDelete, reclaimed, refVars, relocVars, selVars, pending,
                 gcwork, gcFreeing, mutVars, halted>>

\* ZMark::end, success: the stacks are empty, or the bounded completion
\* attempt drains them.
MarkEndCompletes ==
  /\ \E found \in (IF markStack = {} THEN {{}} ELSE SUBSET Markable) :
       livemap' = livemap \cup ((markStack \cup found) \cap Markable)
  /\ markStack' = {}

\* A mark_end that blocks resurrection before it asks Mark to terminate.
MarkEndRetry_blocks ==
  /\ markStack # {}
  /\ resurrectionBlocked' = TRUE
  /\ UNCHANGED <<phaseVars, livemap, markStack, weakRootsProcessed, unloadPrepared,
                 unloaded, enqueued, verified>>

\* ZHeap::mark_end when ZMark::end reports that work remains: return false.
MarkEndRetry ==
  /\ markStack # {}
  /\ UNCHANGED <<phaseVars, livemap, markStack, refVars>>

\* ZHeap::mark_end
mark_end(ordered) ==
  /\ ~halted
  /\ gcwork = "none"
  /\ AtSafepoint
  /\ \/ /\ MarkEndRetry
        /\ Sequence(ordered, {"mark", "mark_continue"}, "mark_continue", "out_of_order_mark_end")
     \/ /\ MarkEndCompletes
        /\ Sequence(ordered, {"mark", "mark_continue"}, "marked", "out_of_order_mark_end")
        /\ ZGlobalPhase' = "MarkCompleted"
        /\ resurrectionBlocked' = TRUE
        /\ weakRootsProcessed' = TRUE
        /\ unloadPrepared' = TRUE
        /\ UNCHANGED <<ZGlobalSeqNum, ZAddressMetadataMarked, ZAddressGoodMask,
                       unloaded, enqueued, verified>>
  /\ UNCHANGED <<flagVars, otherVars, gc_cause, pageState, allocating, pageTable, deferredDelete,
                 reclaimed, relocVars, selVars, pending, gcwork, gcFreeing, mutVars,
                 halted>>

\* ------------------------------------------ marking of an object graph
\* The mark stack stripe an object belongs to.
Stripe(o) == (o % NWorkers) + 1

\* ZMark's termination test: every worker's mark stack is empty.
MarkTerminated == \A w \in Workers : workerStack[w] = {}

\* ZHeap::mark, entry: the marking workers start.
mark_enter ==
  /\ ~halted
  /\ gcwork = "none"
  /\ pc \in {"mark", "mark_continue"}
  /\ markCalls < MaxMarkCalls
  /\ markCalls' = markCalls + 1
  /\ pc' = "mark"
  /\ gcwork' = "mark_workers"
  /\ UNCHANGED <<phaseVars, flagVars, statVars, printVars, objRoots, objEdges, objMarked,
                 workerStack, gc_cause, pageVars, markStack, refVars, relocVars, selVars,
                 pending, gcFreeing, mutVars, halted>>

\* One step of a marking worker, inside mark() or inside the completion
\* attempt of mark_end: pop an object, mark the unmarked objects it refers
\* to and push each on the stack of its stripe.
mark_work(w) ==
  /\ ~halted
  /\ gcwork \in {"mark_workers", "end_workers"}
  /\ \E o \in workerStack[w] :
       LET found == objEdges[o] \ objMarked
       IN  /\ objMarked' = objMarked \cup found
           /\ workerStack' =
                [v \in Workers |->
                   (IF v = w THEN workerStack[v] \ {o} ELSE workerStack[v])
                     \cup {r \in found : Stripe(r) = v}]
  /\ UNCHANGED <<phaseVars, flagVars, statVars, printVars, objRoots, objEdges, markCalls,
                 gc_cause, pageVars, markStack, refVars, relocVars, selVars, pending, pc,
                 gcwork, gcFreeing, mutVars, halted>>

\* ZHeap::mark, exit: the workers stop, with or without work left.
mark_leave ==
  /\ ~halted
  /\ gcwork = "mark_workers"
  /\ gcwork' = "none"
  /\ UNCHANGED <<phaseVars, flagVars, otherVars, gc_cause, pageVars, markStack, refVars,
                 relocVars, selVars, pending, pc, gcFreeing, mutVars, halted>>

\* ZHeap::mark_end, entry: ZMark::end starts its bounded completion attempt.
mark_end_enter ==
  /\ ~halted
  /\ gcwork = "none"
  /\ AtSafepoint
  /\ pc \in {"mark", "mark_continue"}
  /\ gcwork' = "end_workers"
  /\ UNCHANGED <<phaseVars, flagVars, otherVars, gc_cause, pageVars, markStack, refVars,
                 relocVars, selVars, pending, pc, gcFreeing, mutVars, halted>>

\* What mark_end does after ZMark::end has returned true.
MarkEndSucceeds ==
  /\ pc' = "marked"
  /\ ZGlobalPhase' = "MarkCompleted"
  /\ resurrectionBlocked' = TRUE
  /\ weakRootsProcessed' = TRUE
  /\ unloadPrepared' = TRUE
  /\ UNCHANGED <<ZGlobalSeqNum, ZAddressMetadataMarked, ZAddressGoodMask, unloaded,
                 enqueued, verified>>

\* A mark_end that goes on whatever ZMark::end returns.
mark_end_leave_ignores_mark ==
  /\ ~halted
  /\ gcwork = "end_workers"
  /\ gcwork' = "none"
  /\ MarkEndSucceeds
  /\ UNCHANGED <<flagVars, otherVars, gc_cause, pageVars, markStack, relocVars, selVars,
                 pending, gcFreeing, mutVars, halted>>

\* ZHeap::mark_end from the result of ZMark::end on: return false when work
\* remains, enter MarkCompleted otherwise.
mark_end_leave ==
  /\ ~halted
  /\ gcwork = "end_workers"
  /\ gcwork' = "none"
  /\ IF MarkTerminated
       THEN MarkEndSucceeds
       ELSE /\ pc' = "mark_continue"
            /\ UNCHANGED <<phaseVars, refVars>>
  /\ UNCHANGED <<flagVars, otherVars, gc_cause, pageVars, markStack, relocVars, selVars,
                 pending, gcFreeing, mutVars, halted>>

\* ------------------------------------- references and class unloading
\* An enqueue_references that is not preceded by ZResurrection::unblock.
UnblockAndEnqueue_without_unblock ==
  /\ enqueued' = enqueued + 1
  /\ UNCHANGED resurrectionBlocked

\* ZResurrection::unblock followed by ZReferenceProcessor::enqueue_references
UnblockAndEnqueue ==
  /\ resurrectionBlocked' = FALSE
  /\ enqueued' = enqueued + 1

\* A process_non_strong_references that unblocks resurrection before it
\* looks at should_unload_class().
ProcessTail_unblocks_first ==
  /\ resurrectionBlocked' = FALSE
  /\ enqueued' = (IF should_unload_class THEN enqueued ELSE enqueued + 1)

\* A process_non_strong_references without the early return.
ProcessTail_never_returns_early == UnblockAndEnqueue

\* ZHeap::process_non_strong_references from the should_unload_class() test on
ProcessTail ==
  IF should_unload_class
    THEN UNCHANGED <<resurrectionBlocked, enqueued>>
    ELSE UnblockAndEnqueue

\* ZHeap::process_non_strong_references
process_non_strong_references(ordered) ==
  /\ ~halted
  /\ gcwork = "none"
  /\ Sequence(ordered, {"marked"}, IF should_unload_class THEN "unload" ELSE "select",
              "out_of_order_process")
  /\ ProcessTail
  /\ UNCHANGED <<phaseVars, flagVars, otherVars, gc_cause, pageVars, markStack, weakRootsProcessed,
                 unloadPrepared, unloaded, verified, relocVars, selVars, pending,
                 gcwork, gcFreeing, mutVars, halted>>

\* ZHeap::unload_class
unload_class(ordered) ==
  /\ ~halted
  /\ gcwork = "none"
  /\ Sequence(ordered, {"unload"}, "finish", "out_of_order_unload")
  /\ unloaded' = TRUE
  /\ UNCHANGED <<phaseVars, flagVars, otherVars, gc_cause, pageVars, markStack, resurrectionBlocked,
                 weakRootsProcessed, unloadPrepared, enqueued, verified, relocVars,
                 selVars, pending, gcwork, gcFreeing, mutVars, halted>>

\* A finish_non_strong_references without the should_unload_class() guarantee.
finish_non_strong_references_unguarded(ordered) ==
  /\ ~halted
  /\ gcwork = "none"
  /\ Sequence(ordered, {"finish"}, "select", "out_of_order_finish")
  /\ UnblockAndEnqueue
  /\ UNCHANGED <<phaseVars, flagVars, otherVars, gc_cause, pageVars, markStack, weakRootsProcessed,
                 unloadPrepared, unloaded, verified, relocVars, selVars, pending,
                 gcwork, gcFreeing, mutVars, halted>>

\* ZHeap::finish_non_strong_references
finish_non_strong_references(ordered) ==
  /\ ~halted
  /\ gcwork = "none"
  /\ Sequence(ordered, {"finish"}, "select", "out_of_order_finish")
  /\ IF should_unload_class
       THEN /\ UnblockAndEnqueue
            /\ UNCHANGED halted
       ELSE /\ halted' = TRUE
            /\ UNCHANGED <<resurrectionBlocked, enqueued>>
  /\ UNCHANGED <<phaseVars, flagVars, otherVars, gc_cause, pageVars, markStack, weakRootsProcessed,
                 unloadPrepared, unloaded, verified, relocVars, selVars, pending,
                 gcwork, gcFreeing, mutVars>>

\* ------------------------------------------------- relocation set selection
\* GC thread inside ZHeap::free_page, second half (reclaimed = true).
GcFreePage ==
  /\ AllocatorFree(gcFreeing, TRUE)
  /\ gcFreeing' = NoPage

\* ZPageAllocator::disable_deferred_delete: Pages queued meanwhile are
\* deleted when the last enabler leaves.
DisableDeferredDelete ==
  /\ deferredDelete' = deferredDelete - 1
  /\ pageState' = [p \in Pages |->
                     IF deferredDelete = 1 /\ pageState[p] = "queued"
                       THEN "deleted" ELSE pageState[p]]

\* A select_relocation_set that checks the phase first and halts outside
\* MarkCompleted.
select_relocation_set_checked(ordered) ==
  /\ ~halted
  /\ gcwork = "none"
  /\ Sequence(ordered, {"select"}, "selecting", "out_of_order_select")
  /\ IF ZGlobalPhase = "MarkCompleted"
       THEN /\ deferredDelete' = deferredDelete + 1
            /\ selLive' = {}
            /\ selGarbage' = {}
            /\ selLiveCount' = 0
            /\ cursor' = 1
            /\ srsEntry' = {p \in pageTable : is_relocatable(p)}
            /\ gcwork' = "srs_iter"
            /\ UNCHANGED halted
       ELSE /\ halted' = TRUE
            /\ UNCHANGED <<deferredDelete, selVars, gcwork>>
  /\ UNCHANGED <<phaseVars, flagVars, otherVars, gc_cause, pageState, allocating, livemap,
                 pageTable, reclaimed, markStack, refVars, relocVars, pending,
                 gcFreeing, mutVars>>

\* A select_relocation_set that does not enable deferred deletion.
select_relocation_set_without_deferral(ordered) ==
  /\ ~halted
  /\ gcwork = "none"
  /\ Sequence(ordered, {"select"}, "selecting", "out_of_order_select")
  /\ selLive' = {}
  /\ selGarbage' = {}
  /\ selLiveCount' = 0
  /\ cursor' = 1
  /\ srsEntry' = {p \in pageTable : is_relocatable(p)}
  /\ gcwork' = "srs_iter"
  /\ UNCHANGED <<phaseVars, flagVars, otherVars, gc_cause, pageVars, markStack, refVars,
                 relocVars, pending, gcFreeing, mutVars, halted>>

\* ZHeap::select_relocation_set, entry: enable deferred deletion, create
\* the selector and the page table iterator.
select_relocation_set(ordered) ==
  /\ ~halted
  /\ gcwork = "none"
  /\ Sequence(ordered, {"select"}, "selecting", "out_of_order_select")
  /\ deferredDelete' = deferredDelete + 1
  /\ selLive' = {}
  /\ selGarbage' = {}
  /\ selLiveCount' = 0
  /\ cursor' = 1
  /\ srsEntry' = {p \in pageTable : is_relocatable(p)}
  /\ gcwork' = "srs_iter"
  /\ UNCHANGED <<phaseVars, flagVars, otherVars, gc_cause, pageState, allocating, livemap,
                 pageTable, reclaimed, markStack, refVars, relocVars, pending,
                 gcFreeing, mutVars, halted>>

\* A loop body that registers a garbage Page and leaves it in place.
RegisterGarbage_keeps_page(p) ==
  /\ selGarbage' = selGarbage \cup {p}
  /\ UNCHANGED <<pageTable, gcFreeing, gcwork>>

\* The loop body for a garbage Page: register it, then free_page up to the
\* removal of the page table entry.
RegisterGarbage(p) ==
  /\ selGarbage' = selGarbage \cup {p}
  /\ pageTable' = pageTable \ {p}
  /\ gcFreeing' = p
  /\ gcwork' = "srs_free"

\* A loop that does not skip the Pages that are not relocatable.
srs_next_takes_every_page ==
  /\ ~halted
  /\ gcwork = "srs_iter"
  /\ cursor <= NPages
  /\ cursor' = cursor + 1
  /\ IF cursor \notin pageTable
       THEN UNCHANGED <<selLive, selLiveCount, selGarbage, pageTable, gcFreeing, gcwork>>
       ELSE IF is_marked(cursor)
         THEN /\ selLive' = selLive \cup {cursor}
              /\ selLiveCount' = selLiveCount + 1
              /\ UNCHANGED <<selGarbage, pageTable, gcFreeing, gcwork>>
         ELSE /\ RegisterGarbage(cursor)
              /\ UNCHANGED <<selLive, selLiveCount>>
  /\ UNCHANGED <<phaseVars, flagVars, otherVars, gc_cause, pageState, allocating, livemap,
                 deferredDelete, reclaimed, markStack, refVars, relocVars, srsEntry,
                 pending, pc, mutVars, halted>>

\* One pt_iter.next() and the loop body up to the removal of the page
\* table entry of a garbage Page.
srs_next ==
  /\ ~halted
  /\ gcwork = "srs_iter"
  /\ cursor <= NPages
  /\ cursor' = cursor + 1
  /\ IF cursor \notin pageTable \/ ~is_relocatable(cursor)
       THEN UNCHANGED <<selLive, selLiveCount, selGarbage, pageTable, gcFreeing, gcwork>>
       ELSE IF is_marked(cursor)
         THEN /\ selLive' = selLive \cup {cursor}
              /\ selLiveCount' = selLiveCount + 1
              /\ UNCHANGED <<selGarbage, pageTable, gcFreeing, gcwork>>
         ELSE /\ RegisterGarbage(cursor)
              /\ UNCHANGED <<selLive, selLiveCount>>
  /\ UNCHANGED <<phaseVars, flagVars, otherVars, gc_cause, pageState, allocating, livemap,
                 deferredDelete, reclaimed, markStack, refVars, relocVars, srsEntry,
                 pending, pc, mutVars, halted>>

\* The garbage Page is handed back to the allocator.
srs_free ==
  /\ ~halted
  /\ gcwork = "srs_free"
  /\ GcFreePage
  /\ gcwork' = "srs_iter"
  /\ UNCHANGED <<phaseVars, flagVars, otherVars, gc_cause, pageTable, deferredDelete, markStack,
                 refVars, relocVars, selVars, pending, pc, mutVars, halted>>

\* The iteration is over: disable deferred deletion.
srs_disable ==
  /\ ~halted
  /\ gcwork = "srs_iter"
  /\ cursor > NPages
  /\ DisableDeferredDelete
  /\ gcwork' = "srs_select"
  /\ UNCHANGED <<phaseVars, flagVars, otherVars, gc_cause, allocating, livemap, pageTable,
                 reclaimed, markStack, refVars, relocVars, selVars, pending, pc,
                 gcFreeing, mutVars, halted>>

\* ZRelocationSetSelector::select: a subset of the registered live Pages.
SelectorSelect(rs) == rs \in SUBSET selLive

\* selector.select(&_relocation_set), the forwarding table set-up and the
\* end of select_relocation_set.
srs_select ==
  /\ ~halted
  /\ gcwork = "srs_select"
  /\ \E rs \in SUBSET Pages :
       /\ SelectorSelect(rs)
       /\ relocationSet' = rs
       /\ forwardingTable' = forwardingTable \cup rs
  /\ selLive' = {}
  /\ selGarbage' = {}
  /\ selLiveCount' = 0
  /\ cursor' = 0
  /\ srsEntry' = {}
  /\ gcwork' = "none"
  /\ pc' = (IF pc = "selecting" THEN "relocate_start" ELSE pc)
  /\ UNCHANGED <<phaseVars, flagVars, otherVars, gc_cause, pageVars, markStack, refVars,
                 relocateSuccess, pending, gcFreeing, mutVars, halted>>

\* A reset_relocation_set that empties the relocation set and leaves the
\* forwarding table as it is.
reset_relocation_set_keeps_forwardings(ordered) ==
  /\ ~halted
  /\ gcwork = "none"
  /\ Sequence(ordered, {"reset"}, "idle", "out_of_order_reset")
  /\ relocationSet' = {}
  /\ UNCHANGED <<phaseVars, flagVars, otherVars, gc_cause, pageVars, markStack, refVars,
                 forwardingTable, relocateSuccess, selVars, pending, gcwork, gcFreeing,
                 mutVars, halted>>

\* A reset_relocation_set that removes the forwardings and does not reset the
\* relocation set.
reset_relocation_set_keeps_set(ordered) ==
  /\ ~halted
  /\ gcwork = "none"
  /\ Sequence(ordered, {"reset"}, "idle", "out_of_order_reset")
  /\ forwardingTable' = forwardingTable \ relocationSet
  /\ UNCHANGED <<phaseVars, flagVars, otherVars, gc_cause, pageVars, markStack, refVars,
                 relocationSet, relocateSuccess, selVars, pending, gcwork, gcFreeing,
                 mutVars, halted>>

\* ZHeap::reset_relocation_set
reset_relocation_set(ordered) ==
  /\ ~halted
  /\ gcwork = "none"
  /\ Sequence(ordered, {"reset"}, "idle", "out_of_order_reset")
  /\ forwardingTable' = forwardingTable \ relocationSet
  /\ relocationSet' = {}
  /\ UNCHANGED <<phaseVars, flagVars, otherVars, gc_cause, pageVars, markStack, refVars,
                 relocateSuccess, selVars, pending, gcwork, gcFreeing, mutVars, halted>>

\* ------------------------------------------------------------ relocation
\* A relocate_start that does not enter the relocate phase.
relocate_start_keeps_phase(ordered) ==
  /\ ~halted
  /\ gcwork = "none"
  /\ AtSafepoint
  /\ Sequence(ordered, {"relocate_start"}, "relocate", "out_of_order_relocate_start")
  /\ flip_to_remapped
  /\ UNCHANGED <<ZGlobalPhase, ZGlobalSeqNum, flagVars, otherVars, gc_cause, pageVars, markStack,
                 refVars, relocVars, selVars, pending, gcwork, gcFreeing, mutVars,
                 halted>>

\* ZHeap::relocate_start
relocate_start(ordered) ==
  /\ ~halted
  /\ gcwork = "none"
  /\ AtSafepoint
  /\ Sequence(ordered, {"relocate_start"}, "relocate", "out_of_order_relocate_start")
  /\ flip_to_remapped
  /\ ZGlobalPhase' = "Relocate"
  /\ UNCHANGED <<ZGlobalSeqNum, flagVars, otherVars, gc_cause, pageVars, markStack, refVars,
                 relocVars, selVars, pending, gcwork, gcFreeing, mutVars, halted>>

\* ZHeap::relocate, entry: ZRelocate::relocate starts on the relocation set.
relocate(ordered) ==
  /\ ~halted
  /\ gcwork = "none"
  /\ Sequence(ordered, {"relocate"}, "relocating", "out_of_order_relocate")
  /\ pending' = relocationSet
  /\ relocateSuccess' = TRUE
  /\ gcwork' = "rel_loop"
  /\ UNCHANGED <<phaseVars, flagVars, otherVars, gc_cause, pageVars, markStack, refVars,
                 relocationSet, forwardingTable, selVars, gcFreeing, mutVars, halted>>

\* One Page of the relocation set: its objects are copied and the Page is
\* freed, or the copy stalls and the Page stays.
relocate_page ==
  /\ ~halted
  /\ gcwork = "rel_loop"
  /\ \E p \in pending :
       /\ pending' = pending \ {p}
       /\ \/ /\ p \in pageTable
             /\ pageTable' = pageTable \ {p}
             /\ gcFreeing' = p
             /\ gcwork' = "rel_free"
             /\ UNCHANGED relocateSuccess
          \/ /\ relocateSuccess' = FALSE
             /\ UNCHANGED <<pageTable, gcFreeing, gcwork>>
  /\ UNCHANGED <<phaseVars, flagVars, otherVars, gc_cause, pageState, allocating, livemap,
                 deferredDelete, reclaimed, markStack, refVars, relocationSet,
                 forwardingTable, selVars, pc, mutVars, halted>>

\* The relocated Page is handed back to the allocator.
relocate_free ==
  /\ ~halted
  /\ gcwork = "rel_free"
  /\ GcFreePage
  /\ gcwork' = "rel_loop"
  /\ UNCHANGED <<phaseVars, flagVars, otherVars, gc_cause, pageTable, deferredDelete, markStack,
                 refVars, relocVars, selVars, pending, pc, mutVars, halted>>

\* A relocate that returns without recording the outcome.
relocate_end_drops_outcome ==
  /\ ~halted
  /\ gcwork = "rel_loop"
  /\ pending = {}
  /\ gcwork' = "none"
  /\ pc' = (IF pc = "relocating" THEN "reset" ELSE pc)
  /\ relocateReturned' = "void"
  /\ UNCHANGED <<phaseVars, flagVars, statSuccess, printVars, objVars, gc_cause, pageVars,
                 markStack, refVars, relocVars, selVars, pending, gcFreeing, mutVars,
                 halted>>

\* ZHeap::relocate, exit: ZRelocate::relocate has returned its success, the
\* statistics record it, and the function, being void, hands nothing to its
\* caller.
relocate_end ==
  /\ ~halted
  /\ gcwork = "rel_loop"
  /\ pending = {}
  /\ gcwork' = "none"
  /\ pc' = (IF pc = "relocating" THEN "reset" ELSE pc)
  /\ statSuccess' = relocateSuccess
  /\ relocateReturned' = "void"
  /\ UNCHANGED <<phaseVars, flagVars, printVars, objVars, gc_cause, pageVars, markStack,
                 refVars, relocVars, selVars, pending, gcFreeing, mutVars, halted>>

\* -------------------------------------------------------------- printing
\* ZHeap::print_extended_on, entry: print_on, then enable_deferred_delete
\* and the page table iterator.
print_extended_on_enter ==
  /\ ~halted
  /\ ~printing
  /\ prints < MaxPrints
  /\ prints' = prints + 1
  /\ printing' = TRUE
  /\ deferredDelete' = deferredDelete + 1
  /\ UNCHANGED <<phaseVars, flagVars, statVars, objVars, gc_cause, pageState, allocating,
                 livemap, pageTable, reclaimed, markStack, refVars, relocVars, selVars,
                 pending, pc, gcwork, gcFreeing, mutVars, halted>>

\* ZHeap::print_extended_on, exit: the Pages are printed, and the call made
\* after the loop is enable_deferred_delete once more.
print_extended_on_leave ==
  /\ ~halted
  /\ printing
  /\ printing' = FALSE
  /\ deferredDelete' = deferredDelete + 1
  /\ UNCHANGED <<phaseVars, flagVars, statVars, objVars, prints, gc_cause, pageState,
                 allocating, livemap, pageTable, reclaimed, markStack, refVars, relocVars,
                 selVars, pending, pc, gcwork, gcFreeing, mutVars, halted>>

\* ---------------------------------------------------------- verification
\* The driver's positions between a successful mark_end and relocate_start.
VerifyWindow == {"marked", "unload", "finish", "select", "relocate_start"}

\* A verify without the phase guarantee.
verify_unguarded(ordered) ==
  /\ ~halted
  /\ gcwork = "none"
  /\ AtSafepoint
  /\ Sequence(ordered, VerifyWindow, pc, "out_of_order_verify")
  /\ verified' = TRUE
  /\ UNCHANGED <<phaseVars, flagVars, otherVars, gc_cause, pageVars, markStack, resurrectionBlocked,
                 weakRootsProcessed, unloadPrepared, unloaded, enqueued, relocVars,
                 selVars, pending, gcwork, gcFreeing, mutVars, halted>>

\* ZHeap::verify
verify(ordered) ==
  /\ ~halted
  /\ gcwork = "none"
  /\ AtSafepoint
  /\ Sequence(ordered, VerifyWindow, pc, "out_of_order_verify")
  /\ IF ZGlobalPhase = "MarkCompleted"
       THEN /\ verified' = TRUE
            /\ UNCHANGED halted
       ELSE /\ halted' = TRUE
            /\ UNCHANGED verified
  /\ UNCHANGED <<phaseVars, flagVars, otherVars, gc_cause, pageVars, markStack, resurrectionBlocked,
                 weakRootsProcessed, unloadPrepared, unloaded, enqueued, relocVars,
                 selVars, pending, gcwork, gcFreeing, mutVars>>

\* ------------------------------------------------------- specifications
\* Steps of the mutators and the inner steps of the GC thread's calls.
Concurrent ==
  \/ \E t \in Mutators : alloc_page(t)
  \/ \E t \in Mutators : alloc_page_insert(t)
  \/ \E t \in Mutators : keep_page(t)
  \/ \E t \in Mutators : undo_alloc_page(t)
  \/ \E t \in Mutators : free_page(t)
  \/ \E t \in Mutators : mark_barrier(t)
  \/ srs_next
  \/ srs_free
  \/ srs_disable
  \/ srs_select
  \/ relocate_page
  \/ relocate_free
  \/ relocate_end

\* The heap under the cycle driver, which calls in its order.
Next ==
  \/ Concurrent
  \/ mark_start(TRUE)
  \/ mark(TRUE)
  \/ mark_end(TRUE)
  \/ process_non_strong_references(TRUE)
  \/ unload_class(TRUE)
  \/ finish_non_strong_references(TRUE)
  \/ verify(TRUE)
  \/ select_relocation_set(TRUE)
  \/ relocate_start(TRUE)
  \/ relocate(TRUE)
  \/ reset_relocation_set(TRUE)

Spec == Init /\ [][Next]_vars

\* The heap under a caller that makes the GC thread's calls in any order.
NextAny ==
  \/ Concurrent
  \/ mark_start(FALSE)
  \/ mark(FALSE)
  \/ mark_end(FALSE)
  \/ process_non_strong_references(FALSE)
  \/ unload_class(FALSE)
  \/ finish_non_strong_references(FALSE)
  \/ verify(FALSE)
  \/ select_relocation_set(FALSE)
  \/ relocate_start(FALSE)
  \/ relocate(FALSE)
  \/ reset_relocation_set(FALSE)

SpecAny == Init /\ [][NextAny]_vars

\* The heap under the cycle driver, with mutators that may also undo the
\* allocation of a Page they kept.
NextUndo ==
  \/ Next
  \/ \E t \in Mutators : undo_alloc_page_kept(t)

SpecUndo == Init /\ [][NextUndo]_vars

\* The heap under the cycle driver, with a thread that prints the heap.
NextPrint ==
  \/ Next
  \/ print_extended_on_enter
  \/ print_extended_on_leave

SpecPrint == Init /\ [][NextPrint]_vars

\* Marking alone: a cycle has been started by mark_start, which marked the
\* objects the roots refer to and pushed them; the object graph is fixed
\* and no mutator runs.
Graphs ==
  {g \in [Objects -> SUBSET Objects] : \A o \in Objects : Cardinality(g[o]) <= MaxOutDegree}

InitMark ==
  /\ ZGlobalPhase = "Mark"
  /\ ZGlobalSeqNum = 2
  /\ ZAddressMetadataMarked = "Marked1"
  /\ ZAddressGoodMask = "Marked1"
  /\ ClassUnloading = TRUE
  /\ ZUnloadClassesFrequency = MaxFrequency
  /\ gc_cause = "_z_timer"
  /\ pc = "mark"
  /\ InitCollector
  /\ objRoots \in SUBSET Objects
  /\ objEdges \in Graphs
  /\ objMarked = objRoots
  /\ workerStack = [w \in Workers |-> {o \in objRoots : Stripe(o) = w}]
  /\ markCalls = 0

NextMark ==
  \/ mark_enter
  \/ \E w \in Workers : mark_work(w)
  \/ mark_leave
  \/ mark_end_enter
  \/ mark_end_leave

SpecMark == InitMark /\ [][NextMark]_vars

\* The decision function alone: the flags, the cause and the sequence
\* number are drawn from their ranges, and cycles go by.
MaxUnloadFrequency == 3
MaxUnloadSeqNum == 7

InitUnload ==
  /\ InitRest
  /\ ClassUnloading \in BOOLEAN
  /\ ZUnloadClassesFrequency \in 0..MaxUnloadFrequency
  /\ ZGlobalSeqNum \in 1..MaxUnloadSeqNum
  /\ gc_cause \in AllCauses

\* The next cycle begins (ZMark::start advances the sequence number) under
\* some cause.
next_cycle ==
  /\ ZGlobalSeqNum < MaxUnloadSeqNum
  /\ ZGlobalSeqNum' = ZGlobalSeqNum + 1
  /\ gc_cause' \in AllCauses
  /\ UNCHANGED <<ZGlobalPhase, ZAddressMetadataMarked, ZAddressGoodMask, flagVars, otherVars,
                 pageVars, markStack, refVars, relocVars, selVars, pending, pc,
                 gcwork, gcFreeing, mutVars, halted>>

NextUnload == next_cycle

SpecUnload == InitUnload /\ [][NextUnload]_vars

\* ================================================================ claims

\* ---------------------------------------------------------------------- C1
PhaseOrder ==
  {<<"Mark", "MarkCompleted">>, <<"MarkCompleted", "Relocate">>, <<"Relocate", "Mark">>}

\* C1: phase monotonicity. Under the driver's order the global phase only
\* moves Mark -> MarkCompleted -> Relocate -> Mark; Mark is entered exactly
\* when the cycle sequence number advances, so within one cycle MarkCompleted
\* is entered once and never skipped; a mark_end that returns false leaves
\* the phase at Mark.
C1_PhaseMonotonicity ==
  [][/\ (ZGlobalPhase' # ZGlobalPhase => <<ZGlobalPhase, ZGlobalPhase'>> \in PhaseOrder)
     /\ (ZGlobalSeqNum' # ZGlobalSeqNum =>
           /\ ZGlobalSeqNum' = ZGlobalSeqNum + 1
           /\ ZGlobalPhase = "Relocate"
           /\ ZGlobalPhase' = "Mark")
     /\ (ZGlobalPhase' = "Mark" /\ ZGlobalPhase # "Mark" =>
           ZGlobalSeqNum' = ZGlobalSeqNum + 1)
     /\ (pc' = "mark_continue" => ZGlobalPhase' = "Mark")]_vars

\* The second cycle is marking, after a full first cycle, and a mark_end
\* has returned false in it.
C1_Witness ==
  /\ ZGlobalSeqNum >= 3
  /\ pc = "mark_continue"
  /\ ZGlobalPhase = "Mark"

\* ---------------------------------------------------------------------- C2
\* C2: a mark_end that finds work remaining returns false and changes
\* nothing: the phase is still Mark, resurrection is not blocked, the weak
\* roots are not processed and unloading is not prepared; the driver can
\* then run mark() and call mark_end again.
C2_IncompleteTerminationIsRetry ==
  /\ [][pc' = "mark_continue" =>
          /\ ZGlobalPhase' = "Mark"
          /\ ~resurrectionBlocked'
          /\ ~weakRootsProcessed'
          /\ ~unloadPrepared'
          /\ markStack' # {}
          /\ (pc # "mark_continue" =>
                UNCHANGED <<phaseVars, flagVars, otherVars, gc_cause, pageVars, markStack, refVars,
                            relocVars, selVars, pending, gcwork, gcFreeing, mutVars,
                            halted>>)]_vars
  /\ [](pc = "mark_continue" =>
          /\ ENABLED mark(TRUE)
          /\ (AtSafepoint => ENABLED mark_end(TRUE)))

\* mark_end has returned false with work on the mark stack.
C2_Witness ==
  /\ pc = "mark_continue"
  /\ markStack # {}
  /\ ~resurrectionBlocked
  /\ pageTable # {}

\* ---------------------------------------------------------------------- C3
\* C3: when mark_end returns true the phase is MarkCompleted and
\* resurrection is blocked; it stays blocked until
\* process_non_strong_references (no unloading due) or
\* finish_non_strong_references (unloading due) unblocks it; it is never
\* blocked while the phase is Mark.
C3_ResurrectionBlockedAfterMarkEnd ==
  /\ [][pc' = "marked" /\ pc # "marked" =>
          ZGlobalPhase' = "MarkCompleted" /\ resurrectionBlocked']_vars
  /\ [][resurrectionBlocked /\ ~resurrectionBlocked' =>
          \/ pc = "marked" /\ pc' = "select" /\ ~should_unload_class
          \/ pc = "finish" /\ pc' = "select" /\ should_unload_class]_vars
  /\ [](pc \in {"marked", "unload", "finish"} => resurrectionBlocked)
  /\ [](ZGlobalPhase = "Mark" => ~resurrectionBlocked)

\* Resurrection is still blocked after class unloading, before finish.
C3_Witness ==
  /\ pc = "finish"
  /\ resurrectionBlocked
  /\ unloaded
  /\ ZGlobalPhase = "MarkCompleted"

\* ---------------------------------------------------------------------- C4
\* The positions of the GC thread inside select_relocation_set.
SrsSteps == {"srs_iter", "srs_free", "srs_select"}

Freed(p) == pageState[p] \in {"queued", "deleted"}

\* C4: garbage reclamation. Every relocatable Page found unmarked by
\* select_relocation_set is out of the page table from the moment it is
\* registered as garbage and has been freed when select() is about to run;
\* of the relocatable Pages the page table held at entry exactly the garbage
\* ones are gone by then, the marked ones are all still there; and select()
\* puts no garbage Page into the relocation set.
C4_GarbageReclamation ==
  /\ [](gcwork \in SrsSteps =>
          \A p \in selGarbage : p \notin pageTable /\ (Freed(p) \/ p = gcFreeing))
  /\ [](gcwork = "srs_select" =>
          /\ \A p \in selGarbage : Freed(p) /\ p \notin pageTable
          /\ \A p \in srsEntry : IF p \in livemap THEN p \in pageTable /\ ~Freed(p)
                                                 ELSE p \notin pageTable /\ Freed(p)
          /\ srsEntry \ pageTable = selGarbage
          /\ Cardinality(srsEntry) - Cardinality(srsEntry \cap pageTable)
               = Cardinality(selGarbage))
  /\ [][gcwork = "srs_select" /\ gcwork' = "none" =>
          /\ relocationSet' \cap selGarbage = {}
          /\ \A p \in relocationSet' : ~Freed(p)' /\ p \in pageTable']_vars

\* select() is about to run after an iteration that found both garbage and
\* live Pages.
C4_Witness ==
  /\ gcwork = "srs_select"
  /\ selGarbage # {}
  /\ selLive # {}
  /\ reclaimed = Cardinality(selGarbage)

InFlight(p) ==
  \/ p = gcFreeing
  \/ \E t \in Mutators : mpage[t] = p /\ mpc[t] \in {"insert", "free"}

\* C6: page table consistency. A page table lookup never finds a Page that
\* was handed back to the allocator (queued for deletion or deleted), and,
\* whenever no thread is between the two halves of alloc_page or free_page
\* with the Page, it finds the Page exactly when the Page is allocated.
C6_PageTableConsistency ==
  \A p \in Pages :
    /\ p \in pageTable => pageState[p] = "allocated"
    /\ ~InFlight(p) => (p \in pageTable <=> pageState[p] = "allocated")

\* A Page is queued for deferred deletion while a mutator holds a Page it
\* has just allocated and another Page sits in the page table.
C6_Witness ==
  /\ \E p \in Pages : pageState[p] = "queued"
  /\ \E t \in Mutators : mpc[t] = "has"
  /\ Cardinality(pageTable) >= 2

\* ---------------------------------------------------------------------- C7
\* The collector state a call of the GC thread can change, apart from the
\* driver's position, the verification record and the abort flag.
collectorVars ==
  <<phaseVars, flagVars, otherVars, gc_cause, pageVars, markStack, resurrectionBlocked,
    weakRootsProcessed, unloadPrepared, unloaded, enqueued, relocVars, selVars,
    pending, gcwork, gcFreeing, mutVars>>

\* C7 as stated: a select_relocation_set called in a phase other than
\* MarkCompleted halts and classifies, frees and selects nothing.
C7_SelectHaltsInWrongPhase ==
  [][pc' = "out_of_order_select" /\ pc # pc' /\ ZGlobalPhase # "MarkCompleted" =>
       halted' /\ UNCHANGED collectorVars]_vars

\* C7, amended: select_relocation_set makes no phase check of its own.
\* Called in the driver's order it runs in phase MarkCompleted only; called
\* out of the order, in any phase, it does not halt and starts its
\* iteration as usual.
C7_SelectHasNoPhaseCheck ==
  /\ [](gcwork \in SrsSteps /\ pc \notin OutOfOrder => ZGlobalPhase = "MarkCompleted")
  /\ [](gcwork \in SrsSteps => ~halted)
  /\ [][pc' = "out_of_order_select" /\ pc # pc' =>
          /\ ~halted'
          /\ gcwork' = "srs_iter"
          /\ deferredDelete' = deferredDelete + 1
          /\ cursor' = 1]_vars

\* select_relocation_set, called outside MarkCompleted, is freeing a Page it
\* classified as garbage.
C7_Witness ==
  /\ pc = "out_of_order_select"
  /\ ZGlobalPhase # "MarkCompleted"
  /\ gcwork = "srs_free"
  /\ gcFreeing \in selGarbage

\* ---------------------------------------------------------------------- C8
\* C8: verify() walks the heap only in phase MarkCompleted, the phase of the
\* driver's positions between a successful mark_end and relocate_start;
\* called in another phase it halts without walking; and when it walks it
\* changes no collector state.
C8_VerifyOnlyInMarkCompleted ==
  /\ [](pc \in VerifyWindow => ZGlobalPhase = "MarkCompleted")
  /\ [][verified' /\ ~verified =>
          ZGlobalPhase = "MarkCompleted" /\ ~halted' /\ UNCHANGED collectorVars]_vars
  /\ [][pc' = "out_of_order_verify" /\ pc # pc' =>
          /\ UNCHANGED collectorVars
          /\ IF ZGlobalPhase = "MarkCompleted"
               THEN verified' /\ ~halted'
               ELSE halted' /\ verified' = verified]_vars
  /\ [](verified => ZGlobalPhase \in {"MarkCompleted", "Relocate"})

\* verify() walked the heap after mark_end of this cycle, and a later call,
\* in phase Relocate, halted.
C8_Witness ==
  /\ verified
  /\ halted
  /\ pc = "out_of_order_verify"
  /\ ZGlobalPhase = "Relocate"

\* ---------------------------------------------------------------------- C9
\* C9: the two-step unloading protocol. With should_unload_class() true,
\* process_non_strong_references neither unblocks resurrection nor enqueues;
\* unload_class then runs with resurrection blocked, and
\* finish_non_strong_references unblocks and enqueues. With
\* should_unload_class() false, process_non_strong_references unblocks and
\* enqueues itself, and a finish_non_strong_references called nevertheless
\* halts without unblocking or enqueueing.
C9_TwoStepUnloading ==
  /\ [][pc = "marked" /\ pc' = "unload" =>
          /\ should_unload_class
          /\ resurrectionBlocked /\ resurrectionBlocked'
          /\ enqueued' = enqueued]_vars
  /\ [][pc = "marked" /\ pc' = "select" =>
          /\ ~should_unload_class
          /\ resurrectionBlocked /\ ~resurrectionBlocked'
          /\ enqueued' = enqueued + 1]_vars
  /\ [][pc = "unload" /\ pc' = "finish" =>
          /\ resurrectionBlocked /\ resurrectionBlocked'
          /\ unloaded'
          /\ enqueued' = enqueued]_vars
  /\ [][pc = "finish" /\ pc' = "select" =>
          /\ should_unload_class
          /\ unloaded
          /\ resurrectionBlocked /\ ~resurrectionBlocked'
          /\ enqueued' = enqueued + 1]_vars
  /\ [][pc' = "out_of_order_finish" /\ pc # pc' /\ ~should_unload_class =>
          halted' /\ UNCHANGED <<resurrectionBlocked, enqueued>>]_vars
  /\ [](pc \in {"unload", "finish"} => resurrectionBlocked /\ enqueued = 0)

\* Classes have been unloaded, resurrection is still blocked and nothing has
\* been enqueued: finish_non_strong_references is next.
C9_Witness ==
  /\ pc = "finish"
  /\ unloaded
  /\ resurrectionBlocked
  /\ enqueued = 0

\* --------------------------------------------------------------------- C10
\* C10 as stated: for a cause of the explicit set should_unload_class() is
\* true whatever the other settings.
C10_ExplicitCauseAlwaysUnloads ==
  gc_cause \in ExplicitCauses => should_unload_class

\* The cycles among the next n, from sequence number seq on, in which
\* should_unload_class() is true.
UnloadingCycles(seq, n) ==
  {k \in seq..(seq + n - 1) :
     ShouldUnloadFor(ClassUnloading, gc_cause, ZUnloadClassesFrequency, k)}

\* C10, amended: with ClassUnloading off should_unload_class() is false for
\* every cause; with ClassUnloading on it is true for every cause of the
\* explicit set whatever the frequency and the sequence number, and for
\* every other cause it is true in exactly one of any N consecutive cycles,
\* N being the frequency, and in none when N = 0.
C10_UnloadDecision ==
  /\ ~ClassUnloading => ~should_unload_class
  /\ ClassUnloading /\ gc_cause \in ExplicitCauses => should_unload_class
  /\ ClassUnloading /\ gc_cause \notin ExplicitCauses =>
       IF ZUnloadClassesFrequency = 0
         THEN UnloadingCycles(ZGlobalSeqNum, MaxUnloadSeqNum) = {}
         ELSE Cardinality(UnloadingCycles(ZGlobalSeqNum, ZUnloadClassesFrequency)) = 1

\* A cycle of a non-explicit cause in which the frequency makes unloading due.
C10_Witness ==
  /\ ClassUnloading
  /\ gc_cause \notin ExplicitCauses
  /\ ZUnloadClassesFrequency >= 2
  /\ ZGlobalSeqNum > 1
  /\ should_unload_class

\* --------------------------------------------------------------------- C11
\* C11 as stated: when relocate() has returned, its caller holds the outcome
\* of the copy, success or failure.
C11_RelocateReturnsOutcome ==
  pc = "reset" =>
    relocateReturned = (IF relocateSuccess THEN "success" ELSE "failure")

\* C11, amended: relocate() is void. The outcome of the concurrent copy is
\* recorded in the relocation statistics when relocate() ends and nothing is
\* handed to the caller, whose next position is the same after a failure as
\* after a success; relocate() does not retry: every Page of the relocation
\* set is attempted once, and after a failure a Page of the set is still in
\* the page table, not relocated.
C11_RelocateRecordsOutcome ==
  /\ [](pc = "reset" => relocateReturned = "void" /\ statSuccess = relocateSuccess)
  /\ [][gcwork = "rel_loop" /\ gcwork' = "none" =>
          statSuccess' = relocateSuccess /\ pc' = "reset"]_vars
  /\ [](gcwork \in {"rel_loop", "rel_free"} => pending \subseteq relocationSet)
  /\ [][(gcwork \in {"rel_loop", "rel_free"}) =>
          /\ pending' \subseteq pending
          /\ (relocateSuccess /\ ~relocateSuccess' => pending' # pending)
          /\ (~relocateSuccess => ~relocateSuccess')]_vars
  /\ [](pc = "reset" /\ ~statSuccess => relocationSet \cap pageTable # {})

\* relocate() has ended after one Page was relocated and freed and the copy
\* of another stalled.
C11_Witness ==
  /\ pc = "reset"
  /\ ~statSuccess
  /\ relocateReturned = "void"
  /\ \E p \in relocationSet : Freed(p)
  /\ \E p \in relocationSet : p \in pageTable

\* --------------------------------------------------------------------- C12
\* C12 as stated: when reset_relocation_set returns, the forwarding table
\* holds no entry for a Page of the relocation set, the relocation set is
\* empty, and the global phase no longer reads Relocate.
C12_ResetLeavesRelocatePhase ==
  [][pc = "reset" /\ pc' = "idle" =>
       /\ forwardingTable' \cap relocationSet = {}
       /\ relocationSet' = {}
       /\ ZGlobalPhase' # "Relocate"]_vars

\* C12, amended: when reset_relocation_set returns, the forwarding table
\* holds no entry for a Page of the relocation set and the relocation set is
\* empty; the phase, the sequence number and the address view are left as
\* they were. Between two cycles the global phase still reads Relocate, and
\* it leaves Relocate only when the next mark_start enters Mark.
C12_ResetKeepsPhase ==
  /\ [][pc = "reset" /\ pc' = "idle" =>
          /\ forwardingTable' \cap relocationSet = {}
          /\ relocationSet' = {}
          /\ ZGlobalPhase' = "Relocate"
          /\ UNCHANGED phaseVars]_vars
  /\ [](pc = "idle" =>
          relocationSet = {} /\ forwardingTable = {} /\ ZGlobalPhase = "Relocate")
  /\ [][ZGlobalPhase = "Relocate" /\ ZGlobalPhase' # "Relocate" =>
          pc = "idle" /\ pc' = "mark" /\ ZGlobalPhase' = "Mark"]_vars

\* A cycle that relocated with a non-empty relocation set is over and the
\* driver is between two cycles.
C12_Witness ==
  /\ pc = "idle"
  /\ ZGlobalSeqNum >= 2
  /\ ~statSuccess
  /\ ZGlobalPhase = "Relocate"
  /\ relocationSet = {}

\* --------------------------------------------------------------------- C13
\* The driver's steps that are mark_start, a successful mark_end and
\* relocate_start.
PhaseChangingCalls ==
  {<<"idle", "mark">>, <<"mark", "marked">>, <<"mark_continue", "marked">>,
   <<"relocate_start", "relocate">>}

\* C13: the good view and the global phase change only in a step that is
\* mark_start, a successful mark_end or relocate_start, taken while every
\* mutator is parked and moving no mutator; a flip of the view comes in the
\* same step as the phase assignment of its call, so in every state a
\* mutator can run in the marked view in use goes with phase Mark or
\* MarkCompleted and the remapped view with phase Relocate.
C13_ViewAndPhaseChangeAtSafepoint ==
  /\ [][ZAddressGoodMask' # ZAddressGoodMask \/ ZGlobalPhase' # ZGlobalPhase =>
          /\ \A t \in Mutators : mpc[t] = "idle"
          /\ UNCHANGED mutVars
          /\ <<pc, pc'>> \in PhaseChangingCalls]_vars
  /\ [][ZAddressGoodMask' # ZAddressGoodMask =>
          /\ ZGlobalPhase' # ZGlobalPhase
          /\ IF pc = "idle"
               THEN ZAddressGoodMask' = ZAddressMetadataMarked' /\ ZGlobalPhase' = "Mark"
               ELSE ZAddressGoodMask' = "Remapped" /\ ZGlobalPhase' = "Relocate"]_vars
  /\ [](ZAddressGoodMask \in {"Marked0", "Marked1"} =>
          /\ ZAddressGoodMask = ZAddressMetadataMarked
          /\ ZGlobalPhase \in {"Mark", "MarkCompleted"})
  /\ [](ZAddressGoodMask = "Remapped" => ZGlobalPhase = "Relocate")

\* A mutator is between two of its steps, holding a Page, in the marking
\* phase of the cycle after the view was flipped to marked a second time.
C13_Witness ==
  /\ ZGlobalSeqNum = 3
  /\ ZGlobalPhase = "Mark"
  /\ ZAddressGoodMask = "Marked0"
  /\ \E t \in Mutators : mpc[t] = "has"

\* --------------------------------------------------------------------- C14
\* The positions of the GC thread inside the page table iteration of
\* select_relocation_set.
SrsIteration == {"srs_iter", "srs_free"}

\* C14: for the whole page table iteration of select_relocation_set deferred
\* deletion is enabled; no Page is deleted by a step taken during the
\* iteration, by the GC thread or by a mutator: a Page freed meanwhile is
\* queued; no Page the page table held at entry has been deleted and the
\* iterator never visits a deleted Page; and deferred deletion is disabled
\* only by the step that ends the iteration, after the last Page.
C14_DeletionDeferredDuringIteration ==
  /\ [](gcwork \in SrsIteration => deferredDelete > 0)
  /\ [][(gcwork \in SrsIteration) /\ (gcwork' \in SrsIteration) =>
          \A p \in Pages :
            /\ pageState'[p] = "deleted" => pageState[p] = "deleted"
            /\ Freed(p)' /\ ~Freed(p) => pageState'[p] = "queued"]_vars
  /\ [](gcwork \in SrsIteration => \A p \in srsEntry : pageState[p] # "deleted")
  /\ [][gcwork = "srs_iter" /\ cursor' = cursor + 1 /\ cursor \in pageTable =>
          pageState[cursor] = "allocated"]_vars
  /\ [][deferredDelete' < deferredDelete =>
          gcwork = "srs_iter" /\ cursor > NPages /\ gcwork' = "srs_select"]_vars

\* The iteration is under way; a garbage Page it freed and a Page a mutator
\* allocated and undid meanwhile are both queued for deletion.
C14_Witness ==
  /\ gcwork = "srs_iter"
  /\ \E p \in selGarbage : pageState[p] = "queued"
  /\ \E p \in Pages \ srsEntry : pageState[p] = "queued"

\* --------------------------------------------------------------------- C15
\* C15: every Page select_relocation_set registers as live, and so every
\* Page put into the relocation set, is relocatable, marked and in the page
\* table; no Page is registered twice, so the relocation set has no more
\* members than live Pages were registered, nor than relocatable marked
\* Pages were in the page table at entry; a Page that is not relocatable is
\* passed over: it is neither registered nor freed, and never a member of
\* the relocation set.
C15_RelocationSetMembers ==
  /\ [](gcwork \in SrsSteps =>
          /\ \A p \in selLive : is_marked(p) /\ p \in pageTable
          /\ Cardinality(selLive) = selLiveCount
          /\ selLive \cup selGarbage \subseteq srsEntry)
  /\ [][gcwork = "srs_select" /\ gcwork' = "none" =>
          /\ \A p \in relocationSet' : is_marked(p) /\ p \in pageTable'
          /\ Cardinality(relocationSet') <= selLiveCount
          /\ Cardinality(relocationSet') <= Cardinality(srsEntry \cap livemap)]_vars
  /\ [][gcwork = "srs_iter" /\ cursor' = cursor + 1 /\ ~is_relocatable(cursor) =>
          UNCHANGED <<selLive, selGarbage, pageTable, pageState, gcFreeing>>]_vars
  /\ [](gcwork \in SrsIteration /\ gcFreeing # NoPage => gcFreeing \in srsEntry)
  /\ [](relocationSet \cap allocating = {})

\* select() is about to run: the iteration registered a live Page and a
\* garbage Page, and the page table holds a Page that is not relocatable.
C15_Witness ==
  /\ gcwork = "srs_select"
  /\ selLive # {}
  /\ selGarbage # {}
  /\ pageTable \cap allocating # {}

\* --------------------------------------------------------------------- C16
\* C16: undo_alloc_page goes on to free_page only with a Page that is still
\* allocating; called with any other Page it stops the VM at the assertion
\* and the Page stays allocated and in the page table. For an allocating
\* Page it removes the page table entry and hands the Page to the allocator,
\* which queues or deletes it, and the reclaimed statistic is the same after
\* each of the two steps as before.
C16_UndoOfAllocatingPageOnly ==
  /\ [](\A t \in Mutators :
          /\ mpc[t] = "free" =>
                /\ mpage[t] \in allocating
                /\ mpage[t] \notin pageTable
                /\ pageState[mpage[t]] = "allocated"
          /\ mpc[t] = "assert_failed" =>
                /\ halted
                /\ mpage[t] \notin allocating
                /\ mpage[t] \in pageTable
                /\ pageState[mpage[t]] = "allocated")
  /\ [][\A t \in Mutators :
          /\ mpc[t] # "free" /\ mpc'[t] = "free" =>
                /\ mpage'[t] \in pageTable
                /\ pageTable' = pageTable \ {mpage'[t]}
                /\ reclaimed' = reclaimed
                /\ UNCHANGED <<pageState, allocating>>
          /\ mpc[t] = "free" /\ mpc'[t] # "free" =>
                /\ pageState'[mpage[t]] \in {"queued", "deleted"}
                /\ mpage[t] \notin allocating'
                /\ reclaimed' = reclaimed
                /\ UNCHANGED pageTable
          /\ mpc'[t] = "assert_failed" /\ mpc[t] # "assert_failed" =>
                UNCHANGED <<pageVars, phaseVars>>]_vars

\* A mutator has allocated a Page and undone the allocation, which freed the
\* Page and reclaimed nothing; then a call with a Page that is no longer
\* allocating has stopped the VM.
C16_Witness ==
  /\ \E t \in Mutators : mpc[t] = "assert_failed"
  /\ \E p \in Pages : Freed(p)
  /\ reclaimed = 0
  /\ halted

\* --------------------------------------------------------------------- C17
\* The objects a set of objects refers to, added to the set.
WithReferents(S) == S \cup UNION {objEdges[o] : o \in S}

RECURSIVE ReachableIn(_, _)
ReachableIn(S, n) == IF n = 0 THEN S ELSE ReachableIn(WithReferents(S), n - 1)

\* The objects reachable from the roots.
Reachable == ReachableIn(objRoots, NObjects)

\* C17: termination idempotence. For a fixed root set and object graph, in
\* every state after a successful mark_end the marked objects are exactly
\* the objects reachable from the roots, however many mark() calls were
\* made, zero included, and in whatever order the workers took their steps;
\* no object is marked that is not reachable; and mark_end returns true
\* only when every worker's mark stack is empty and no marked object refers
\* to an unmarked one, so that no worker has new work.
C17_TerminationIdempotence ==
  /\ [](pc = "marked" => objMarked = Reachable /\ MarkTerminated)
  /\ [](objMarked \subseteq Reachable)
  /\ [][pc' = "marked" /\ pc # "marked" =>
          /\ \A w \in Workers : workerStack[w] = {}
          /\ \A o \in objMarked : objEdges[o] \subseteq objMarked
          /\ UNCHANGED objVars]_vars

\* mark_end has returned true without a single mark() call, on a graph in
\* which marking had to go beyond the roots and some object is unreachable.
C17_Witness ==
  /\ pc = "marked"
  /\ markCalls = 0
  /\ objMarked # objRoots
  /\ objMarked # Objects

C19_DeferredDeletionIsScoped ==
  gcwork \notin SrsIteration /\ ~printing =>
    /\ deferredDelete = 0
    /\ \A p \in Pages : pageState[p] # "queued"

\* --------------------------------------------------------------------- C20
\* C20: in the driver's order resurrection is blocked only by a successful
\* mark_end, with nothing enqueued yet in the cycle; it is unblocked once,
\* by the step that makes the cycle's one enqueue; from then until
\* relocate_start exactly one enqueue has been made and resurrection is not
\* blocked, so it is not blocked when the phase becomes Relocate or while
\* it is Relocate. The value of should_unload_class() does not change
\* between process_non_strong_references and finish_non_strong_references.
C20_ResurrectionBalancedPerCycle ==
  /\ [][resurrectionBlocked' /\ ~resurrectionBlocked =>
          pc' = "marked" /\ pc # "marked" /\ enqueued' = 0]_vars
  /\ [][resurrectionBlocked /\ ~resurrectionBlocked' =>
          enqueued = 0 /\ enqueued' = 1]_vars
  /\ [][enqueued' # enqueued =>
          \/ enqueued' = 0 /\ pc' = "mark"
          \/ enqueued' = 1 /\ resurrectionBlocked /\ ~resurrectionBlocked']_vars
  /\ [](pc \in {"select", "selecting", "relocate_start"} =>
          enqueued = 1 /\ ~resurrectionBlocked)
  /\ [][ZGlobalPhase' = "Relocate" /\ ZGlobalPhase # "Relocate" =>
          enqueued' = 1 /\ ~resurrectionBlocked']_vars
  /\ [](ZGlobalPhase = "Relocate" => ~resurrectionBlocked)
  /\ [][(pc \in {"unload", "finish"}) /\ ~halted' =>
          should_unload_class' = should_unload_class]_vars

\* The second cycle, one that unloaded classes, is about to start
\* relocating: one enqueue was made and resurrection is unblocked.
C20_Witness ==
  /\ pc = "relocate_start"
  /\ ZGlobalSeqNum = 3
  /\ unloaded
  /\ enqueued = 1
  /\ ~resurrectionBlocked

====
